---- MODULE Spec2Model ----
(***************************************************************************)
(* The "stocks" REST resource of app/routes/stock_routes.js: five routes   *)
(* (INDEX, SHOW, CREATE, UPDATE, DESTROY) over a document store, with      *)
(* bearer-token authentication and ownership-based authorization.          *)
(*                                                                         *)
(* Every in-flight HTTP request occupies a slot.  A request suspends at    *)
(* authentication and at every store call; each store call is atomic on    *)
(* one document, and the promise callbacks chained on it run in the same   *)
(* step as its completion (they touch nothing but the request itself).     *)
(***************************************************************************)
EXTENDS Integers, Sequences, FiniteSets, TLC

\* Bounds of the model.
MaxStocks == 1      \* documents ever created
MaxPasses == 2      \* applications of the sanitizer in SpecSan

Users == {"u1", "u2"}
NoUser == "none"                 \* req.user of a request with no valid token
Credentials == Users \cup {NoUser}
Ids == 1..MaxStocks
Slots == {"a", "b"}              \* two connections, one request on each at a time
Fields == {"title", "text", "owner"}
Blank == ""                      \* the JS empty string ''
Absent == "<absent>"             \* marks a key the client did not send
Null == [null |-> TRUE]          \* the result of a lookup that found nothing
SuccessStatuses == {"200", "201", "204"}

VARIABLES
    store,      \* the stocks collection: id -> document or Null
    nextId,     \* the next fresh document id
    createdBy,  \* history: id -> the requester whose CREATE inserted it
    removed,    \* history: ids whose deleteOne has executed
    reqs,       \* slot -> the request in flight there
    sanIn,      \* SpecSan: the payload given to the sanitizer
    sanOnce,    \* SpecSan: the payload after the first pass
    sanOut,     \* SpecSan: the payload after the latest pass
    passes      \* SpecSan: number of passes applied

storeVars == <<store, nextId, createdBy, removed>>
sanVars == <<sanIn, sanOnce, sanOut, passes>>
vars == <<store, nextId, createdBy, removed, reqs, sanIn, sanOnce, sanOut, passes>>

(***************************************************************************)
(* Request bodies.  A body maps a resource name to a map from field names  *)
(* to values; a value is a string.                                         *)
(***************************************************************************)
Pick(f, t, x, o) == IF f = "title" THEN t ELSE IF f = "text" THEN x ELSE o

MkInner(t, x, o) ==
    [f \in {g \in Fields : Pick(g, t, x, o) # Absent} |-> Pick(f, t, x, o)]

EmptyBody == "stock" :> MkInner(Absent, Absent, Absent)

CreateBodies ==
    {"stock" :> MkInner("T1", "X1", o) : o \in {Absent} \cup Users}

UpdateBodies ==
    {"stock" :> MkInner(t, x, o) :
        t \in {Absent, Blank, "T2"}, x \in {Absent, Blank, "X2"},
        o \in {Absent, "u2"}}

(***************************************************************************)
(* lib/remove_blank_fields, lib/custom_errors                              *)
(***************************************************************************)
\* a version with the loose comparison obj[key] == '', true of 0 and false too
removeBlanksLoose(body) ==
    [res \in DOMAIN body |->
        [f \in {g \in DOMAIN body[res] :
                    body[res][g] \notin {Blank, "number:0", "boolean:false"}}
            |-> body[res][f]]]

\* removes every key of every inner object whose value is ''
removeBlanks(body) ==
    [res \in DOMAIN body |->
        [f \in {g \in DOMAIN body[res] : body[res][g] # Blank}
            |-> body[res][f]]]

\* throws DocumentNotFoundError on a missing record, else passes it through
handle404(record) == IF record = Null THEN "NotFound" ELSE "ok"

\* throws OwnershipError unless req.user owns the resource; reading a
\* property of undefined or null is a TypeError
requireOwnership(user, resource) ==
    IF resource = Null \/ user = NoUser THEN "TypeError"
    ELSE IF user # resource.owner THEN "Forbidden"
    ELSE "ok"

(***************************************************************************)
(* The store calls the routes make.                                        *)
(***************************************************************************)
StoreFindById(id) == store[id]

StoreCreate(inner) ==
    [store EXCEPT ![nextId] =
        [title |-> inner["title"], text |-> inner["text"], owner |-> inner["owner"]]]

Merged(doc, inner, f) == IF f \in DOMAIN inner THEN inner[f] ELSE doc[f]

\* a version that writes the document back whether or not it still exists
StoreUpdateOneUpsert(id, inner) ==
    LET old == IF store[id] = Null
               THEN [title |-> Blank, text |-> Blank, owner |-> Blank]
               ELSE store[id]
    IN [store EXCEPT ![id] =
            [title |-> Merged(old, inner, "title"),
             text |-> Merged(old, inner, "text"),
             owner |-> Merged(old, inner, "owner")]]

\* stock.updateOne(inner): updateOne({_id: stock._id}, inner), which sets the
\* given fields of the document with that id, if there is one
StoreUpdateOne(id, inner) ==
    IF store[id] = Null THEN store
    ELSE [store EXCEPT ![id] =
            [title |-> Merged(store[id], inner, "title"),
             text |-> Merged(store[id], inner, "text"),
             owner |-> Merged(store[id], inner, "owner")]]

StoreDeleteOne(id) == [store EXCEPT ![id] = Null]

(***************************************************************************)
(* Route wiring and the synchronous part of each handler.                  *)
(***************************************************************************)
ProtectedRoutesNoDestroy == {"create", "update"}

\* the routes registered with requireToken
ProtectedRoutes == {"create", "update", "destroy"}

Inner(body) == body["stock"]

CreatePayloadKeepOwner(body, user) ==
    LET inner == Inner(body) IN
    "stock" :> [f \in DOMAIN inner \cup {"owner"} |->
                    IF f \in DOMAIN inner THEN inner[f] ELSE user]

\* req.body.stock.owner = req.user.id
CreatePayload(body, user) ==
    LET inner == Inner(body) IN
    "stock" :> [f \in DOMAIN inner \cup {"owner"} |->
                    IF f = "owner" THEN user ELSE inner[f]]

UpdatePayloadKeepOwner(body) == removeBlanks(body)

\* the removeBlanks middleware, then delete req.body.stock.owner
UpdatePayload(body) ==
    LET inner == Inner(removeBlanks(body)) IN
    "stock" :> [f \in DOMAIN inner \ {"owner"} |-> inner[f]]

(***************************************************************************)
(* The promise chains run on a lookup's result.  Each yields the stages    *)
(* it ran, the error it threw, the store mutation it issued and whether    *)
(* the chain waits for that mutation before responding.                    *)
(***************************************************************************)
Chain(log, threw, pending, returned) ==
    [log |-> log, threw |-> threw, pending |-> pending, returned |-> returned]

ShowChainNoGuard(record) ==
    IF record = Null THEN Chain(<<>>, "TypeError", "none", FALSE)
    ELSE Chain(<<>>, "none", "none", FALSE)

\* .then(handle404).then(stock => res.status(200).json(...))
ShowChain(record) ==
    Chain(<<"handle404">>,
          IF handle404(record) = "ok" THEN "none" ELSE handle404(record),
          "none", FALSE)

UpdateChainUpdateFirst(user, record) ==
    IF handle404(record) # "ok"
    THEN Chain(<<"handle404">>, handle404(record), "none", FALSE)
    ELSE IF requireOwnership(user, record) # "ok"
    THEN Chain(<<"handle404", "updateOne", "requireOwnership">>,
               requireOwnership(user, record), "updateOne", FALSE)
    ELSE Chain(<<"handle404", "updateOne", "requireOwnership">>,
               "none", "updateOne", TRUE)

\* .then(handle404).then(stock => { requireOwnership(req, stock);
\*                                  return stock.updateOne(req.body.stock) })
UpdateChain(user, record) ==
    IF handle404(record) # "ok"
    THEN Chain(<<"handle404">>, handle404(record), "none", FALSE)
    ELSE IF requireOwnership(user, record) # "ok"
    THEN Chain(<<"handle404", "requireOwnership">>,
               requireOwnership(user, record), "none", FALSE)
    ELSE Chain(<<"handle404", "requireOwnership", "updateOne">>,
               "none", "updateOne", TRUE)

DestroyChainNoOwnership(user, record) ==
    IF handle404(record) # "ok"
    THEN Chain(<<"handle404">>, handle404(record), "none", FALSE)
    ELSE Chain(<<"handle404", "deleteOne">>, "none", "deleteOne", FALSE)

\* .then(handle404).then(stock => { requireOwnership(req, stock);
\*                                  stock.deleteOne() })
\* the callback does not return the promise of deleteOne
DestroyChain(user, record) ==
    IF handle404(record) # "ok"
    THEN Chain(<<"handle404">>, handle404(record), "none", FALSE)
    ELSE IF requireOwnership(user, record) # "ok"
    THEN Chain(<<"handle404", "requireOwnership">>,
               requireOwnership(user, record), "none", FALSE)
    ELSE Chain(<<"handle404", "requireOwnership", "deleteOne">>,
               "none", "deleteOne", FALSE)

(***************************************************************************)
(* Requests.                                                               *)
(***************************************************************************)
IdleReq ==
    [pc |-> "idle", verb |-> "none", cred |-> NoUser, id |-> 0,
     body |-> EmptyBody, claimed |-> Absent, pending |-> "none",
     matched |-> -1, resp |-> "none", raised |-> {}, log |-> <<>>]

NewReq(verb, cred, id, body) ==
    [IdleReq EXCEPT !.pc = "received", !.verb = verb, !.cred = cred,
                    !.id = id, !.body = body]

\* .catch(next): the error goes to the error handler, which responds
Failed(req, err, stages) ==
    [req EXCEPT !.pc = "done", !.resp = err, !.raised = @ \cup {err},
                !.log = @ \o stages, !.body = EmptyBody]

Responded(req, status, stages) ==
    [req EXCEPT !.pc = "done", !.resp = status, !.log = @ \o stages]

\* the request after chain c ran on a lookup's result
Settled(req, c) ==
    IF c.threw # "none"
    THEN [Failed(req, c.threw, <<"findById">> \o c.log) EXCEPT
            !.pending = c.pending]
    ELSE [req EXCEPT !.pending = c.pending,
                     !.log = @ \o <<"findById">> \o c.log,
                     !.pc = IF c.pending = "none" THEN "done"
                            ELSE IF c.returned THEN "await" ELSE "respond",
                     !.resp = IF c.pending = "none" THEN "200" ELSE "none"]

Init ==
    /\ store = [i \in Ids |-> Null]
    /\ nextId = 1
    /\ createdBy = [i \in Ids |-> NoUser]
    /\ removed = {}
    /\ reqs = [r \in Slots |-> IdleReq]
    /\ sanIn = EmptyBody
    /\ sanOnce = EmptyBody
    /\ sanOut = EmptyBody
    /\ passes = 0

\* passport.authenticate: passport's bearer strategy lets a request through to the
\* route's handler only when its token resolves to a user
requireToken(verb, cred) == verb \in ProtectedRoutes => cred # NoUser

RequestLines ==
    {<<"index", 0, EmptyBody>>}
    \cup {<<verb, id, EmptyBody>> : verb \in {"show", "destroy"}, id \in Ids}
    \cup {<<"create", 0, body>> : body \in CreateBodies}
    \cup {<<"update", id, body>> : id \in Ids, body \in UpdateBodies}

\* a request to a protected route arrives without a valid token: requireToken
\* answers 401 and the rest of the route never runs
Unauthorized(r) ==
    /\ reqs[r].pc = "idle"
    /\ \E line \in RequestLines :
        /\ ~requireToken(line[1], NoUser)
        /\ reqs' = [reqs EXCEPT ![r] =
                        Failed(NewReq(line[1], NoUser, line[2], line[3]),
                               "Unauthorized", <<>>)]
    /\ UNCHANGED <<storeVars, sanVars>>

\* INDEX: a request arrives and Stock.find() is issued
IndexStart(r) ==
    /\ reqs[r].pc = "idle"
    /\ \E cred \in Credentials :
        /\ requireToken("index", cred)
        /\ reqs' = [reqs EXCEPT ![r] =
                        [NewReq("index", cred, 0, EmptyBody) EXCEPT !.pc = "find"]]
    /\ UNCHANGED <<storeVars, sanVars>>

\* INDEX: the find completes and the 200 is sent, or its error goes to next
IndexFind(r) ==
    /\ reqs[r].verb = "index" /\ reqs[r].pc = "find"
    /\ \E ok \in BOOLEAN :
        reqs' = [reqs EXCEPT ![r] =
                    IF ok THEN Responded(@, "200", <<"find">>)
                    ELSE Failed(@, "StoreError", <<"find">>)]
    /\ UNCHANGED <<storeVars, sanVars>>

\* SHOW: a request arrives and Stock.findById is issued
ShowStart(r) ==
    /\ reqs[r].pc = "idle"
    /\ \E cred \in Credentials, id \in Ids :
        /\ requireToken("show", cred)
        /\ reqs' = [reqs EXCEPT ![r] =
                        [NewReq("show", cred, id, EmptyBody) EXCEPT !.pc = "find"]]
    /\ UNCHANGED <<storeVars, sanVars>>

\* SHOW: the lookup completes and the chain runs on its result
ShowFind(r) ==
    /\ reqs[r].verb = "show" /\ reqs[r].pc = "find"
    /\ \E ok \in BOOLEAN :
        reqs' = [reqs EXCEPT ![r] =
                    IF ok THEN Settled(@, ShowChain(StoreFindById(@.id)))
                    ELSE Failed(@, "StoreError", <<"findById">>)]
    /\ UNCHANGED <<storeVars, sanVars>>

\* CREATE: a request arrives, the owner is set and Stock.create is issued
CreateStart(r) ==
    /\ reqs[r].pc = "idle"
    /\ \E cred \in Credentials, body \in CreateBodies :
        /\ requireToken("create", cred)
        /\ reqs' = [reqs EXCEPT ![r] =
                        [NewReq("create", cred, 0, CreatePayload(body, cred))
                            EXCEPT !.pc = "create",
                                   !.claimed = IF "owner" \in DOMAIN Inner(body)
                                               THEN Inner(body)["owner"]
                                               ELSE Absent]]
    /\ UNCHANGED <<storeVars, sanVars>>

\* CREATE: the insert completes and the 201 is sent, or its error goes to next
CreateExec(r) ==
    /\ reqs[r].verb = "create" /\ reqs[r].pc = "create"
    /\ \/ /\ nextId <= MaxStocks
          /\ store' = StoreCreate(Inner(reqs[r].body))
          /\ createdBy' = [createdBy EXCEPT ![nextId] = reqs[r].cred]
          /\ nextId' = nextId + 1
          /\ reqs' = [reqs EXCEPT ![r] =
                        [Responded(@, "201", <<"create">>) EXCEPT !.id = nextId]]
          /\ UNCHANGED removed
       \/ /\ reqs' = [reqs EXCEPT ![r] = Failed(@, "StoreError", <<"create">>)]
          /\ UNCHANGED storeVars
    /\ UNCHANGED sanVars

\* UPDATE: a request arrives and passes requireToken
UpdateReceive(r) ==
    /\ reqs[r].pc = "idle"
    /\ \E cred \in Credentials, id \in Ids, body \in UpdateBodies :
        /\ requireToken("update", cred)
        /\ reqs' = [reqs EXCEPT ![r] = NewReq("update", cred, id, body)]
    /\ UNCHANGED <<storeVars, sanVars>>

\* UPDATE: removeBlanks, the owner key is dropped, Stock.findById is issued
UpdateStart(r) ==
    /\ reqs[r].verb = "update" /\ reqs[r].pc = "received"
    /\ reqs' = [reqs EXCEPT ![r].pc = "find",
                            ![r].body = UpdatePayload(@)]
    /\ UNCHANGED <<storeVars, sanVars>>

\* UPDATE: the lookup completes and the chain runs on its result
UpdateFind(r) ==
    /\ reqs[r].verb = "update" /\ reqs[r].pc = "find"
    /\ \E ok \in BOOLEAN :
        reqs' = [reqs EXCEPT ![r] =
                    IF ok THEN Settled(@, UpdateChain(@.cred, StoreFindById(@.id)))
                    ELSE Failed(@, "StoreError", <<"findById">>)]
    /\ UNCHANGED <<storeVars, sanVars>>

\* what the chain does when a mutation it issued settles: a chain that was
\* handed the mutation's promise sends 204 or forwards the error, any other
\* chain never learns of the outcome
AfterMutation(req, ok, n) ==
    LET q == [req EXCEPT !.pending = "none", !.matched = n,
                         !.raised = IF ok THEN @ ELSE @ \cup {"StoreError"}]
    IN IF req.pc # "await" THEN q
       ELSE IF ok THEN [q EXCEPT !.pc = "done", !.resp = "204"]
       ELSE [q EXCEPT !.pc = "done", !.resp = "StoreError", !.body = EmptyBody]

\* UPDATE: the updateOne executes
UpdateExec(r) ==
    /\ reqs[r].pending = "updateOne"
    /\ \E ok \in BOOLEAN :
        /\ store' = IF ok THEN StoreUpdateOne(reqs[r].id, Inner(reqs[r].body))
                    ELSE store
        /\ reqs' = [reqs EXCEPT ![r] =
                        AfterMutation(@, ok,
                            IF ~ok THEN -1
                            ELSE IF store[@.id] = Null THEN 0 ELSE 1)]
    /\ UNCHANGED <<nextId, createdBy, removed, sanVars>>

\* DESTROY: a request arrives, passes requireToken, Stock.findById is issued
DestroyStart(r) ==
    /\ reqs[r].pc = "idle"
    /\ \E cred \in Credentials, id \in Ids :
        /\ requireToken("destroy", cred)
        /\ reqs' = [reqs EXCEPT ![r] =
                        [NewReq("destroy", cred, id, EmptyBody) EXCEPT !.pc = "find"]]
    /\ UNCHANGED <<storeVars, sanVars>>

\* DESTROY: the lookup completes and the chain runs on its result
DestroyFind(r) ==
    /\ reqs[r].verb = "destroy" /\ reqs[r].pc = "find"
    /\ \E ok \in BOOLEAN :
        reqs' = [reqs EXCEPT ![r] =
                    IF ok THEN Settled(@, DestroyChain(@.cred, StoreFindById(@.id)))
                    ELSE Failed(@, "StoreError", <<"findById">>)]
    /\ UNCHANGED <<storeVars, sanVars>>

\* DESTROY: the deleteOne executes
DestroyExec(r) ==
    /\ reqs[r].pending = "deleteOne"
    /\ \E ok \in BOOLEAN :
        /\ store' = IF ok THEN StoreDeleteOne(reqs[r].id) ELSE store
        /\ removed' = IF ok THEN removed \cup {reqs[r].id} ELSE removed
        /\ reqs' = [reqs EXCEPT ![r] = AfterMutation(@, ok, -1)]
    /\ UNCHANGED <<nextId, createdBy, sanVars>>

\* .then(() => res.sendStatus(204)) of a chain that waits for nothing
Respond204(r) ==
    /\ reqs[r].pc = "respond"
    /\ reqs' = [reqs EXCEPT ![r].pc = "done", ![r].resp = "204"]
    /\ UNCHANGED <<storeVars, sanVars>>

\* the request is over and its connection is free again
Retire(r) ==
    /\ reqs[r].pc = "done"
    /\ reqs[r].pending = "none"
    /\ reqs' = [reqs EXCEPT ![r] = IdleReq]
    /\ UNCHANGED <<storeVars, sanVars>>

Next ==
    \E r \in Slots :
        \/ Unauthorized(r)
        \/ IndexStart(r)
        \/ IndexFind(r)
        \/ ShowStart(r)
        \/ ShowFind(r)
        \/ CreateStart(r)
        \/ CreateExec(r)
        \/ UpdateReceive(r)
        \/ UpdateStart(r)
        \/ UpdateFind(r)
        \/ UpdateExec(r)
        \/ DestroyStart(r)
        \/ DestroyFind(r)
        \/ DestroyExec(r)
        \/ Respond204(r)
        \/ Retire(r)

Spec == Init /\ [][Next]_vars

(***************************************************************************)
(* The sanitizer on its own: any nested payload, sanitized again and       *)
(* again.  Values other than strings are written "number:0" and            *)
(* "boolean:false".                                                        *)
(***************************************************************************)
SanValues == {Blank, "AAPL", "number:0", "boolean:false"}
SanFields == {"title", "text"}
SanInners == UNION {[D -> SanValues] : D \in SUBSET SanFields}
SanBodies ==
    {"stock" :> i : i \in SanInners}
    \cup {("stock" :> i) @@ ("example" :> j) : i \in SanInners, j \in SanInners}

InitSan ==
    /\ store = [i \in Ids |-> Null]
    /\ nextId = 1
    /\ createdBy = [i \in Ids |-> NoUser]
    /\ removed = {}
    /\ reqs = [r \in Slots |-> IdleReq]
    /\ sanIn \in SanBodies
    /\ sanOnce = sanIn
    /\ sanOut = sanIn
    /\ passes = 0

Sanitize ==
    /\ passes < MaxPasses
    /\ sanOut' = removeBlanks(sanOut)
    /\ sanOnce' = IF passes = 0 THEN removeBlanks(sanOut) ELSE sanOnce
    /\ passes' = passes + 1
    /\ UNCHANGED <<storeVars, reqs, sanIn>>

NextSan == Sanitize

SpecSan == InitSan /\ [][NextSan]_vars

(***************************************************************************)
(* Properties.                                                             *)
(***************************************************************************)
Has(log, stage) == \E i \in DOMAIN log : log[i] = stage

Before(log, a, b) ==
    \E i, j \in DOMAIN log : i < j /\ log[i] = a /\ log[j] = b

Mutations == {"updateOne", "deleteOne"}

Mutates(log) == \E m \in Mutations : Has(log, m)

\* the lookup of request r completes in this step and returns a result
LookupReturns(r) ==
    /\ reqs[r].pc = "find"
    /\ reqs'[r].pc # "find"
    /\ "StoreError" \notin reqs'[r].raised

\* C1: an UPDATE or DESTROY whose lookup finds a record owned by someone other
\* than the requester ends in Forbidden in that very step, issues no mutation
\* and leaves the whole store as it was; a request answered Forbidden has
\* issued no mutation at all.
C1_NonOwnerForbidden ==
    /\ [](\A r \in Slots :
            reqs[r].resp = "Forbidden" =>
                /\ reqs[r].pc = "done"
                /\ reqs[r].pending = "none"
                /\ ~Mutates(reqs[r].log))
    /\ [][\A r \in Slots :
            (/\ reqs[r].verb \in {"update", "destroy"}
             /\ LookupReturns(r)
             /\ store[reqs[r].id] # Null
             /\ store[reqs[r].id].owner # reqs[r].cred)
            => /\ reqs'[r].pc = "done"
               /\ reqs'[r].resp = "Forbidden"
               /\ reqs'[r].pending = "none"
               /\ store' = store]_vars

C1_Witness ==
    \E r1, r2 \in Slots :
        /\ reqs[r1].verb = "update" /\ reqs[r1].resp = "Forbidden"
        /\ reqs[r2].verb = "destroy" /\ reqs[r2].resp = "Forbidden"
        /\ store[reqs[r1].id] # Null
        /\ store[reqs[r1].id].owner # reqs[r1].cred

\* C2: every stored stock has one owner, the requester whose CREATE inserted
\* it, and no step changes the owner of a stock that stays in the store.
C2_OwnerIsCreator ==
    /\ [](\A id \in Ids :
            store[id] # Null =>
                /\ store[id].owner \in Users
                /\ store[id].owner = createdBy[id])
    /\ [][\A id \in Ids :
            (store[id] # Null /\ store'[id] # Null)
                => store'[id].owner = store[id].owner]_vars

C2_Witness ==
    \E r1, r2 \in Slots :
        /\ reqs[r1].verb = "create" /\ reqs[r1].resp = "201"
        /\ reqs[r1].claimed \in Users \ {reqs[r1].cred}
        /\ store[reqs[r1].id] # Null
        /\ store[reqs[r1].id].owner = reqs[r1].cred
        /\ reqs[r2].verb = "update" /\ reqs[r2].resp = "204"
        /\ reqs[r2].matched = 1 /\ reqs[r2].id = reqs[r1].id

\* C3: once a DESTROY has been answered 204 the record is gone from the store
\* (so that a later SHOW of the same id finds nothing).
C3_Answered204MeansRemoved ==
    \A r \in Slots :
        (reqs[r].verb = "destroy" /\ reqs[r].resp = "204")
            => store[reqs[r].id] = Null

\* C4: a request in which a guard failed or a store call raised an error sends
\* no success response, and ends with one of the errors raised.
C4_ErrorsForwarded ==
    \A r \in Slots :
        reqs[r].raised # {} =>
            /\ reqs[r].resp \notin SuccessStatuses
            /\ reqs[r].pc = "done" => reqs[r].resp \in reqs[r].raised

\* C5: a SHOW, UPDATE or DESTROY whose lookup finds no record ends in NotFound
\* in that very step and leaves the store as it was; a request answered
\* NotFound has evaluated no ownership and issued no mutation.
C5_AbsentIsNotFound ==
    /\ [](\A r \in Slots :
            reqs[r].resp = "NotFound" =>
                /\ reqs[r].pc = "done"
                /\ reqs[r].pending = "none"
                /\ ~Has(reqs[r].log, "requireOwnership")
                /\ ~Mutates(reqs[r].log))
    /\ [][\A r \in Slots :
            (/\ reqs[r].verb \in {"show", "update", "destroy"}
             /\ LookupReturns(r)
             /\ store[reqs[r].id] = Null)
            => /\ reqs'[r].pc = "done"
               /\ reqs'[r].resp = "NotFound"
               /\ reqs'[r].pending = "none"
               /\ store' = store]_vars

C5_Witness ==
    \E r1, r2 \in Slots :
        /\ reqs[r1].verb = "show" /\ reqs[r1].resp = "NotFound"
        /\ reqs[r2].verb \in {"update", "destroy"}
        /\ reqs[r2].resp = "NotFound"
        /\ reqs[r2].cred \in Users

\* C6: the payload of an UPDATE that goes on to the store is the request's
\* payload without the owner key and without the keys sent as '', and an
\* updateOne that finds the record sets exactly the payload's fields and keeps
\* every other field.
C6_PartialUpdate ==
    /\ [](\A r \in Slots :
            (reqs[r].verb = "update" /\ reqs[r].pc \in {"find", "await"}) =>
                /\ "owner" \notin DOMAIN Inner(reqs[r].body)
                /\ \A f \in DOMAIN Inner(reqs[r].body) :
                        Inner(reqs[r].body)[f] # Blank)
    /\ [][\A r \in Slots :
            /\ (reqs[r].pc = "received" /\ reqs'[r].pc = "find") =>
                    LET raw == Inner(reqs[r].body)
                        sent == Inner(reqs'[r].body)
                    IN /\ DOMAIN sent =
                            {f \in DOMAIN raw \ {"owner"} : raw[f] # Blank}
                       /\ \A f \in DOMAIN sent : sent[f] = raw[f]
            /\ (reqs[r].pending = "updateOne" /\ reqs'[r].matched = 1) =>
                    \A f \in Fields :
                        store'[reqs[r].id][f] =
                            IF f \in DOMAIN Inner(reqs[r].body)
                            THEN Inner(reqs[r].body)[f]
                            ELSE store[reqs[r].id][f]]_vars

C6_Witness ==
    \E r \in Slots :
        /\ reqs[r].verb = "update" /\ reqs[r].resp = "204"
        /\ reqs[r].matched = 1
        /\ Inner(reqs[r].body) = ("text" :> "X2")
        /\ store[reqs[r].id] # Null
        /\ store[reqs[r].id].title = "T1"
        /\ store[reqs[r].id].text = "X2"
        /\ store[reqs[r].id].owner = reqs[r].cred

\* C7: a CREATE, UPDATE or DESTROY without a valid token ends in Unauthorized
\* having made no store call; an INDEX or SHOW never ends in Unauthorized or
\* Forbidden, and answers 200 whenever its lookup returns (a record, for SHOW),
\* whatever the credential.
C7_TokenRequired ==
    /\ [](\A r \in Slots :
            /\ (reqs[r].verb \in {"create", "update", "destroy"}
                    /\ reqs[r].cred = NoUser) =>
                    /\ reqs[r].pc = "done"
                    /\ reqs[r].resp = "Unauthorized"
                    /\ reqs[r].log = <<>>
                    /\ reqs[r].pending = "none"
            /\ (reqs[r].verb \in {"index", "show"} /\ reqs[r].pc = "done") =>
                    reqs[r].resp \in {"200", "NotFound", "StoreError"})
    /\ [][\A r \in Slots :
            (/\ reqs[r].verb \in {"index", "show"}
             /\ LookupReturns(r)
             /\ reqs[r].verb = "show" => store[reqs[r].id] # Null)
            => reqs'[r].resp = "200"]_vars

C7_Witness ==
    \E r1, r2 \in Slots :
        /\ reqs[r1].verb = "destroy" /\ reqs[r1].resp = "Unauthorized"
        /\ store[reqs[r1].id] # Null
        /\ reqs[r2].verb = "show" /\ reqs[r2].cred = NoUser
        /\ reqs[r2].resp = "200"

\* C8: after one pass of the sanitizer no field holds '', every field that
\* held another value still holds it, and every further pass changes nothing.
C8_SanitizerIdempotent ==
    passes >= 1 =>
        /\ DOMAIN sanOut = DOMAIN sanIn
        /\ \A res \in DOMAIN sanIn :
            /\ DOMAIN sanOut[res] =
                    {f \in DOMAIN sanIn[res] : sanIn[res][f] # Blank}
            /\ \A f \in DOMAIN sanOut[res] : sanOut[res][f] = sanIn[res][f]
        /\ sanOut = sanOnce

C8_Witness ==
    /\ passes = 2
    /\ sanOut # sanIn
    /\ \E res \in DOMAIN sanIn :
        /\ DOMAIN sanIn[res] = SanFields
        /\ sanIn[res]["title"] = Blank
        /\ sanIn[res]["text"] = "number:0"
        /\ DOMAIN sanOut[res] = {"text"}

\* C9: in every request the ownership guard runs only after the not-found
\* guard has passed a record, a mutation is issued only after both guards have
\* run and none has failed, and the store changes only in a CREATE or in the
\* step of a mutation issued that way.
C9_GuardsBeforeMutation ==
    /\ [](\A r \in Slots :
            /\ Has(reqs[r].log, "requireOwnership") =>
                    /\ Before(reqs[r].log, "handle404", "requireOwnership")
                    /\ reqs[r].raised \cap {"NotFound", "TypeError"} = {}
            /\ (Mutates(reqs[r].log) \/ reqs[r].pending # "none") =>
                    /\ \A m \in Mutations :
                        Has(reqs[r].log, m) =>
                            /\ Before(reqs[r].log, "handle404", m)
                            /\ Before(reqs[r].log, "requireOwnership", m)
                    /\ reqs[r].raised \cap
                            {"NotFound", "Forbidden", "TypeError"} = {})
    /\ [][store' # store =>
            \E r \in Slots :
                \/ reqs[r].pc = "create"
                \/ /\ reqs[r].pending \in Mutations
                   /\ reqs'[r].pending = "none"
                   /\ Before(reqs[r].log, "requireOwnership", reqs[r].pending)]_vars

C9_Witness ==
    \E r1, r2 \in Slots :
        /\ reqs[r1].verb = "update" /\ reqs[r1].matched = 1
        /\ reqs[r1].log =
                <<"findById", "handle404", "requireOwnership", "updateOne">>
        /\ reqs[r2].verb = "destroy" /\ reqs[r2].resp = "Forbidden"
        /\ reqs[r2].log = <<"findById", "handle404", "requireOwnership">>

\* C10: a record whose removal has executed is absent from then on, whatever
\* updates were under way, and every record in the store was inserted by a
\* CREATE.
C10_RemovedStaysAbsent ==
    /\ \A id \in removed : store[id] = Null
    /\ \A id \in Ids :
        store[id] # Null => (id < nextId /\ createdBy[id] \in Users)

C10_Witness ==
    \E r \in Slots :
        /\ reqs[r].verb = "update" /\ reqs[r].resp = "204"
        /\ reqs[r].matched = 0
        /\ reqs[r].id \in removed
        /\ store[reqs[r].id] = Null

====
